---- MODULE Spec2Model ----
\* A model of the email / calendar content extraction of gmail/utils.py:
\*   parse_ics             the line loop of the ICS parser (utils.py 242-333)
\*   extract_email_ics     the scan for the first text/calendar part (335-344)
\*   extract_email_content the body selector (183-228)
\*   decode_mime_words     the header decoder (161-181)
\*   get_new_email         the per-message record (437-447)
\*
\* Text is modelled as a sequence of atoms.  An atom is one lexical unit of the
\* text (a keyword, a punctuation character, a value, a line-break character);
\* prefix tests, substring tests, splits and regular-expression searches are
\* computed on these sequences the way the code computes them on characters.
EXTENDS Integers, Sequences, FiniteSets, TLC

\* ---------------------------------------------------------------- bounds
\* longest document of the general family (any lines of the catalogue)
MaxLines == 3
\* longest body of each section of the VEVENT/VALARM family
MaxAlarmBody == 1
\* longest body of each block of the two-VEVENT family
MaxEventBody == 2
\* longest document of the timezone family
MaxTzLines == 4
\* longest body of the VEVENT of the folded family
MaxFoldBody == 1

\* ---------------------------------------------------------------- text
CR == "\\r"
LF == "\\n"
SP == " "

\* the sequences of length 0..n over S
SeqUpTo(S, n) == UNION {[1..k -> S] : k \in 0..n}

RECURSIVE Concat(_)
\* the concatenation of a sequence of sequences
Concat(ss) == IF ss = <<>> THEN <<>> ELSE Head(ss) \o Concat(Tail(ss))

\* str.startswith(p)
StartsWith(line, p) ==
    /\ Len(line) >= Len(p)
    /\ SubSeq(line, 1, Len(p)) = p

\* `a in line` for a keyword a
Contains(line, a) == \E k \in 1..Len(line) : line[k] = a

RECURSIVE Replace(_, _)
\* str.replace(pat, ""): the non-overlapping occurrences of pat, left to right
Replace(s, pat) ==
    IF Len(s) < Len(pat) THEN s
    ELSE IF SubSeq(s, 1, Len(pat)) = pat
         THEN Replace(SubSeq(s, Len(pat) + 1, Len(s)), pat)
         ELSE <<Head(s)>> \o Replace(Tail(s), pat)

RECURSIVE SplitFrom(_, _)
\* str.splitlines() on the rest s of the text, cur being the line begun
SplitFrom(s, cur) ==
    IF s = <<>> THEN (IF cur = <<>> THEN <<>> ELSE <<cur>>)
    ELSE IF s[1] = CR /\ Len(s) >= 2 /\ s[2] = LF
         THEN <<cur>> \o SplitFrom(SubSeq(s, 3, Len(s)), <<>>)
    ELSE IF s[1] \in {CR, LF}
         THEN <<cur>> \o SplitFrom(Tail(s), <<>>)
    ELSE SplitFrom(Tail(s), Append(cur, s[1]))

\* str.splitlines()
SplitLines(s) == SplitFrom(s, <<>>)

\* the unfolding of CRLF folds only
UnfoldedLinesCrlfOnly(text) == SplitLines(Replace(text, <<CR, LF, SP>>))

\* content.replace("\r\n ", "").replace("\n ", "").splitlines()
UnfoldedLines(text) ==
    SplitLines(Replace(Replace(text, <<CR, LF, SP>>), <<LF, SP>>))

\* line.split(":", 1)[1]: the text after the first colon
AfterFirstColon(line) ==
    LET k == CHOOSE k \in 1..Len(line) :
                 line[k] = ":" /\ \A j \in 1..(k - 1) : line[j] # ":"
    IN  SubSeq(line, k + 1, Len(line))

\* re.search(r"mailto:(.*)", line): the starts of a match
MailtoMatches(line) ==
    {k \in 1..(Len(line) - 1) : line[k] = "mailto" /\ line[k + 1] = ":"}

\* group(1) of re.search(r"mailto:(.*)", line), "" when there is no match
MailtoGroup(line) ==
    IF MailtoMatches(line) = {} THEN <<>>
    ELSE LET k == CHOOSE k \in MailtoMatches(line) :
                      \A j \in MailtoMatches(line) : k <= j
         IN  SubSeq(line, k + 2, Len(line))

\* re.search(r"CN=(.*?)(:|;)", line): the starts of a match
CnMatches(line) ==
    {k \in 1..(Len(line) - 1) :
        /\ line[k] = "CN"
        /\ line[k + 1] = "="
        /\ \E d \in (k + 2)..Len(line) : line[d] \in {":", ";"}}

\* group(1) of re.search(r"CN=(.*?)(:|;)", line), "" when there is no match
CnGroup(line) ==
    IF CnMatches(line) = {} THEN <<>>
    ELSE LET k == CHOOSE k \in CnMatches(line) :
                      \A j \in CnMatches(line) : k <= j
             d == CHOOSE d \in (k + 2)..Len(line) :
                      /\ line[d] \in {":", ";"}
                      /\ \A e \in (k + 2)..(d - 1) : line[e] \notin {":", ";"}
         IN  SubSeq(line, k + 2, d - 1)

\* ---------------------------------------------------------------- ICS lines
BeginTimezone == <<"BEGIN", ":", "VTIMEZONE">>
EndTimezone == <<"END", ":", "VTIMEZONE">>
BeginEvent == <<"BEGIN", ":", "VEVENT">>
EndEvent == <<"END", ":", "VEVENT">>
BeginAlarm == <<"BEGIN", ":", "VALARM">>
EndAlarm == <<"END", ":", "VALARM">>
TzidBrussels == <<"TZID", ":", "Europe/Brussels">>
TzidUtc == <<"TZID", ":", "UTC">>
SummaryMeeting == <<"SUMMARY", ":", "Meeting">>
SummaryReminder == <<"SUMMARY", ":", "Reminder">>
SummaryAttendee == <<"SUMMARY", ":", "ATTENDEE", SP, "list">>
DtStart == <<"DTSTART", ":", "20240101T100000">>
DtStartParam == <<"DTSTART", ";", "TZID", "=", "X", ":", "20240101T100000">>
DtEnd == <<"DTEND", ":", "20240101T110000">>
OrganizerBob ==
    <<"ORGANIZER", ";", "CN", "=", "Bob", ":", "mailto", ":", "bob@x">>
OrganizerBare == <<"ORGANIZER", ":", "bob">>
AttendeeAl ==
    <<"ATTENDEE", ";", "CN", "=", "Al", ":", "mailto", ":", "al@x">>
AttendeeEve ==
    <<"ATTENDEE", ";", "CN", "=", "Eve", ";", "RSVP", "=", "TRUE", ":",
      "mailto", ":", "eve@x">>
AttendeeBare == <<"ATTENDEE", ":", "nobody">>
\* DTSTART:20240101T100000, its value written as two atoms so that a fold can
\* fall inside it
DtStartSplit == <<"DTSTART", ":", "2024", "0101T100000">>
OrganizerMailOnly == <<"ORGANIZER", ":", "mailto", ":", "bob@x">>
SummaryOrganizer == <<"SUMMARY", ":", "ORGANIZER", SP, "call">>

\* the lines of the general family
Catalogue ==
    {BeginTimezone, EndTimezone, BeginEvent, EndEvent, BeginAlarm, EndAlarm,
     TzidBrussels, SummaryMeeting, SummaryAttendee, DtStart, DtStartParam,
     OrganizerBare, AttendeeAl, AttendeeBare}

\* the body lines of the VEVENT/VALARM family
AlarmBodyLines == {SummaryMeeting, SummaryReminder, AttendeeAl, OrganizerBob}

\* the lines that follow the alarm in the VEVENT/VALARM family
AfterAlarmLines ==
    {SummaryReminder, DtEnd, OrganizerBare, OrganizerMailOnly,
     SummaryOrganizer}

\* the body lines of the two-VEVENT family
EventBodyLines == {SummaryMeeting, SummaryReminder, AttendeeAl, AttendeeEve}

\* the lines of the timezone family
TzLines ==
    {BeginTimezone, EndTimezone, TzidBrussels, TzidUtc, BeginEvent, EndEvent}

GeneralDocs == SeqUpTo(Catalogue, MaxLines)

AlarmDocs ==
    {<<BeginEvent>> \o pre \o <<BeginAlarm>> \o mid \o <<EndAlarm>> \o post
        \o <<EndEvent>> :
        pre \in SeqUpTo(AlarmBodyLines, MaxAlarmBody),
        mid \in SeqUpTo(AlarmBodyLines, MaxAlarmBody),
        post \in SeqUpTo(AfterAlarmLines, MaxAlarmBody)}

TwoEventDocs ==
    {<<BeginEvent>> \o b1 \o <<EndEvent, BeginEvent>> \o b2 \o <<EndEvent>> :
        b1 \in SeqUpTo(EventBodyLines, MaxEventBody),
        b2 \in SeqUpTo(EventBodyLines, MaxEventBody)}

TzDocs == SeqUpTo(TzLines, MaxTzLines)

\* the documents parse_ics is run on, as sequences of lines
Docs == GeneralDocs \cup AlarmDocs \cup TwoEventDocs \cup TzDocs

\* the text of a document: each line ended by a line feed
TextOf(doc) == Concat([k \in 1..Len(doc) |-> doc[k] \o <<LF>>])

\* the body lines of the folded family
FoldBodyLines == {DtStartSplit, SummaryMeeting, AttendeeAl}

\* the logical documents of the folded family
FoldDocs ==
    {<<BeginEvent>> \o body \o <<EndEvent>> :
        body \in SeqUpTo(FoldBodyLines, MaxFoldBody)}

\* the line breaks of a physical text
LineBreaks == {<<LF>>, <<CR, LF>>}

\* the places <<l, p>> where line l of doc can be folded: after its atom p
FoldPlaces(doc) ==
    UNION {{<<l, p>> : p \in 1..(Len(doc[l]) - 1)} : l \in 1..Len(doc)}

\* line l of a document as physical text: a line break and one space after
\* each atom whose place is in folds, and a line break at the end
FoldedLine(line, l, folds, eol) ==
    Concat([p \in 1..Len(line) |->
               IF <<l, p>> \in folds THEN <<line[p]>> \o eol \o <<SP>>
               ELSE <<line[p]>>]) \o eol

\* a document as physical text, folded at the places folds
FoldedText(doc, folds, eol) ==
    Concat([l \in 1..Len(doc) |-> FoldedLine(doc[l], l, folds, eol)])

\* the folded family: each logical document with the physical texts that fold
\* it at no, one or two places, with LF or CRLF line breaks
FoldedRenderings ==
    UNION {{[text |-> FoldedText(d, {}, eol), logical |-> d] :
               eol \in LineBreaks}
           \cup {[text |-> FoldedText(d, {a, b}, eol), logical |-> d] :
                    a \in FoldPlaces(d), b \in FoldPlaces(d),
                    eol \in LineBreaks} : d \in FoldDocs}

\* the texts parse_ics is run on
Texts == {TextOf(d) : d \in Docs} \cup {r.text : r \in FoldedRenderings}

\* ---------------------------------------------------------------- parse_ics
VARIABLES
    content,         \* parse_ics: the argument
    lines,           \* the unfolded logical lines
    i,               \* the index of the next line of `for line in lines`
    in_event, in_alarm, in_timezone,
    tzid_in_locals,  \* whether the local tzid has been assigned
    tzid,            \* the local tzid (meaningful when tzid_in_locals)
    parsed_data,
    pc,              \* "idle" | "loop" | "done"
    result           \* [kind |-> "none"] until parse_ics returns

VARIABLES
    mime_msg,        \* the message the extraction functions are called with
    walk,            \* the parts mime_msg.walk() yields, in order
    part_no,         \* the index of the next part of `for part in ...walk()`
    text_content,    \* extract_email_content: None or the text
    html_content,
    mpc,             \* "idle" | "call" | "loop" | "done" | "raised"
    mresult          \* the value extract_email_content / _ics returns

VARIABLES
    pairs,           \* decode_mime_words: what header.decode_header(s) returns
    pair_no,         \* the index of the next pair of the generator
    words,           \* the strings the generator has yielded
    hpc,             \* "idle" | "call" | "loop" | "done" | "raised"
    hresult,         \* the string decode_mime_words returns
    email_data,      \* get_new_email: the record being built
    rpc              \* "idle" | "title" | "content" | "attachment" | "done"
                     \* | "raised"

icsVars ==
    <<content, lines, i, in_event, in_alarm, in_timezone, tzid_in_locals,
      tzid, parsed_data, pc, result>>

mailVars == <<mime_msg, walk, part_no, text_content, html_content, mpc, mresult>>

headerVars == <<pairs, pair_no, words, hpc, hresult>>

recordVars == <<email_data, rpc>>

vars == <<icsVars, mailVars, headerVars, recordVars>>

\* None, and a value that is not None
NoneValue == [none |-> TRUE, val |-> <<>>]
Some(v) == [none |-> FALSE, val |-> v]

\* `not x` for x None or a string
Falsy(x) == x.none \/ x.val = <<>>

\* parse_ics is not running
IdleIcs ==
    /\ content = <<>>
    /\ lines = <<>>
    /\ i = 1
    /\ in_event = FALSE
    /\ in_alarm = FALSE
    /\ in_timezone = FALSE
    /\ tzid_in_locals = FALSE
    /\ tzid = <<>>
    /\ parsed_data = <<>>
    /\ pc = "idle"
    /\ result = [kind |-> "none"]

\* extract_email_content and extract_email_ics are not running
IdleMail ==
    /\ mime_msg = <<>>
    /\ walk = <<>>
    /\ part_no = 1
    /\ text_content = NoneValue
    /\ html_content = NoneValue
    /\ mpc = "idle"
    /\ mresult = [kind |-> "pending"]

\* decode_mime_words is not running
IdleHeader ==
    /\ pairs = <<>>
    /\ pair_no = 1
    /\ words = <<>>
    /\ hpc = "idle"
    /\ hresult = <<>>

\* get_new_email is not building a record
IdleRecord ==
    /\ email_data = <<>>
    /\ rpc = "idle"

\* the dictionary with the unfolded text kept in place of the original
InitialParsedDataUnfolded(text) ==
    [summary |-> <<>>, datetime_start |-> <<>>, datetime_end |-> <<>>,
     tzid |-> <<>>, organizer_name |-> <<>>, organizer_email |-> <<>>,
     attendees |-> <<>>,
     ics_file |-> Replace(Replace(text, <<CR, LF, SP>>), <<LF, SP>>)]

\* the dictionary parse_ics starts from
InitialParsedData(text) ==
    [summary |-> <<>>, datetime_start |-> <<>>, datetime_end |-> <<>>,
     tzid |-> <<>>, organizer_name |-> <<>>, organizer_email |-> <<>>,
     attendees |-> <<>>, ics_file |-> text]

\* in_timezone after the if/elif chain
NextInTimezone(line, tz) ==
    IF StartsWith(line, BeginTimezone) THEN TRUE
    ELSE IF StartsWith(line, EndTimezone) THEN FALSE
    ELSE tz

\* in_event after the if/elif chain
NextInEvent(line, ev) ==
    IF StartsWith(line, BeginTimezone) \/ StartsWith(line, EndTimezone) THEN ev
    ELSE IF StartsWith(line, BeginEvent) THEN TRUE
    ELSE IF StartsWith(line, EndEvent) THEN FALSE
    ELSE ev

\* the chain without its END:VALARM branch
NextInAlarmNeverCleared(line, al) ==
    IF \/ StartsWith(line, BeginTimezone) \/ StartsWith(line, EndTimezone)
       \/ StartsWith(line, BeginEvent) \/ StartsWith(line, EndEvent) THEN al
    ELSE IF StartsWith(line, BeginAlarm) THEN TRUE
    ELSE al

\* in_alarm after the if/elif chain
NextInAlarm(line, al) ==
    IF \/ StartsWith(line, BeginTimezone) \/ StartsWith(line, EndTimezone)
       \/ StartsWith(line, BeginEvent) \/ StartsWith(line, EndEvent) THEN al
    ELSE IF StartsWith(line, BeginAlarm) THEN TRUE
    ELSE IF StartsWith(line, EndAlarm) THEN FALSE
    ELSE al

\* whether the line takes the END:VEVENT branch of the chain
IsEndEventBranch(line) ==
    /\ ~StartsWith(line, BeginTimezone)
    /\ ~StartsWith(line, EndTimezone)
    /\ ~StartsWith(line, BeginEvent)
    /\ StartsWith(line, EndEvent)

\* parsed_data["tzid"] = tzid if 'tzid' in locals() else ""
CommitTzid(pd, line, bound, tz) ==
    IF IsEndEventBranch(line)
    THEN [pd EXCEPT !.tzid = IF bound THEN tz ELSE <<>>]
    ELSE pd

\* a TZID: line captured outside any VTIMEZONE block too
CapturesTzidAnywhere(line, tz) == StartsWith(line, <<"TZID", ":">>)

\* if in_timezone and line.startswith("TZID:")
CapturesTzid(line, tz) == tz /\ StartsWith(line, <<"TZID", ":">>)

\* the event fields captured inside an alarm too
CaptureGuardNoAlarm(ev, al) == ev

\* if in_event and not in_alarm
CaptureGuard(ev, al) == ev /\ ~al

\* the chain with a summary that is set once and never overwritten
CaptureFieldsFirstWins(pd, line) ==
    IF StartsWith(line, <<"SUMMARY", ":">>)
    THEN (IF pd.summary = <<>>
          THEN [pd EXCEPT !.summary = AfterFirstColon(line)] ELSE pd)
    ELSE IF StartsWith(line, <<"DTSTART", ":">>)
    THEN [pd EXCEPT !.datetime_start = AfterFirstColon(line)]
    ELSE IF StartsWith(line, <<"DTEND", ":">>)
    THEN [pd EXCEPT !.datetime_end = AfterFirstColon(line)]
    ELSE IF Contains(line, "ORGANIZER")
    THEN [pd EXCEPT !.organizer_email = MailtoGroup(line),
                    !.organizer_name = CnGroup(line)]
    ELSE pd

\* the chain with an organizer field kept as it was when its pattern fails
CaptureFieldsKeepPrior(pd, line) ==
    IF StartsWith(line, <<"SUMMARY", ":">>)
    THEN [pd EXCEPT !.summary = AfterFirstColon(line)]
    ELSE IF StartsWith(line, <<"DTSTART", ":">>)
    THEN [pd EXCEPT !.datetime_start = AfterFirstColon(line)]
    ELSE IF StartsWith(line, <<"DTEND", ":">>)
    THEN [pd EXCEPT !.datetime_end = AfterFirstColon(line)]
    ELSE IF Contains(line, "ORGANIZER")
    THEN [pd EXCEPT !.organizer_email =
                        IF MailtoMatches(line) = {} THEN @
                        ELSE MailtoGroup(line),
                    !.organizer_name =
                        IF CnMatches(line) = {} THEN @ ELSE CnGroup(line)]
    ELSE pd

\* the SUMMARY / DTSTART / DTEND / ORGANIZER chain
CaptureFields(pd, line) ==
    IF StartsWith(line, <<"SUMMARY", ":">>)
    THEN [pd EXCEPT !.summary = AfterFirstColon(line)]
    ELSE IF StartsWith(line, <<"DTSTART", ":">>)
    THEN [pd EXCEPT !.datetime_start = AfterFirstColon(line)]
    ELSE IF StartsWith(line, <<"DTEND", ":">>)
    THEN [pd EXCEPT !.datetime_end = AfterFirstColon(line)]
    ELSE IF Contains(line, "ORGANIZER")
    THEN [pd EXCEPT !.organizer_email = MailtoGroup(line),
                    !.organizer_name = CnGroup(line)]
    ELSE pd

\* the attendee rule gated on in_event as well
AttendeeGuardInEvent(line, ev, al) == Contains(line, "ATTENDEE") /\ ev /\ ~al

\* if "ATTENDEE" in line and not in_alarm
AttendeeGuard(line, ev, al) == Contains(line, "ATTENDEE") /\ ~al

\* parsed_data["attendees"].append({"name": ..., "email": ...})
AppendAttendee(pd, line) ==
    [pd EXCEPT !.attendees =
        Append(@, [name |-> CnGroup(line), email |-> MailtoGroup(line)])]

\* the locals of parse_ics after one iteration of the loop on `line`
StepLine(st, line) ==
    LET tz == NextInTimezone(line, st.in_timezone)
        ev == NextInEvent(line, st.in_event)
        al == NextInAlarm(line, st.in_alarm)
        pd1 == CommitTzid(st.parsed_data, line, st.tzid_in_locals, st.tzid)
        cap == CapturesTzid(line, tz)
        pd2 == IF CaptureGuard(ev, al) THEN CaptureFields(pd1, line) ELSE pd1
        pd3 == IF AttendeeGuard(line, ev, al)
               THEN AppendAttendee(pd2, line) ELSE pd2
    IN  [in_timezone |-> tz, in_event |-> ev, in_alarm |-> al,
         tzid_in_locals |-> (st.tzid_in_locals \/ cap),
         tzid |-> IF cap THEN AfterFirstColon(line) ELSE st.tzid,
         parsed_data |-> pd3]

\* the locals of parse_ics before the loop
InitialLocals(text) ==
    [in_timezone |-> FALSE, in_event |-> FALSE, in_alarm |-> FALSE,
     tzid_in_locals |-> FALSE, tzid |-> <<>>,
     parsed_data |-> InitialParsedData(text)]

RECURSIVE RunLines(_, _)
\* the locals of parse_ics after the loop over ls
RunLines(st, ls) ==
    IF ls = <<>> THEN st ELSE RunLines(StepLine(st, Head(ls)), Tail(ls))

\* parse_ics(content) as a function
ParseIcs(text) ==
    RunLines(InitialLocals(text), UnfoldedLines(text)).parsed_data

\* parse_ics is entered with a document
InitIcs ==
    /\ content \in Texts
    /\ lines = UnfoldedLines(content)
    /\ i = 1
    /\ in_event = FALSE
    /\ in_alarm = FALSE
    /\ in_timezone = FALSE
    /\ tzid_in_locals = FALSE
    /\ tzid = <<>>
    /\ parsed_data = InitialParsedData(content)
    /\ pc = "loop"
    /\ result = [kind |-> "none"]

\* one iteration of `for line in lines`
ParseLine ==
    /\ pc = "loop"
    /\ i <= Len(lines)
    /\ LET st == StepLine([in_timezone |-> in_timezone, in_event |-> in_event,
                           in_alarm |-> in_alarm,
                           tzid_in_locals |-> tzid_in_locals, tzid |-> tzid,
                           parsed_data |-> parsed_data], lines[i])
       IN  /\ in_timezone' = st.in_timezone
           /\ in_event' = st.in_event
           /\ in_alarm' = st.in_alarm
           /\ tzid_in_locals' = st.tzid_in_locals
           /\ tzid' = st.tzid
           /\ parsed_data' = st.parsed_data
    /\ i' = i + 1
    /\ UNCHANGED <<content, lines, pc, result>>
    /\ UNCHANGED <<mailVars, headerVars, recordVars>>

\* return parsed_data
ReturnParsed ==
    /\ pc = "loop"
    /\ i > Len(lines)
    /\ pc' = "done"
    /\ result' = [kind |-> "event", data |-> parsed_data]
    /\ UNCHANGED <<content, lines, i, in_event, in_alarm, in_timezone,
                   tzid_in_locals, tzid, parsed_data>>
    /\ UNCHANGED <<mailVars, headerVars, recordVars>>

\* parse_ics on a document
Init == InitIcs /\ IdleMail /\ IdleHeader /\ IdleRecord

Next == ParseLine \/ ReturnParsed

Spec == Init /\ [][Next]_vars

\* ---------------------------------------------------------------- messages
\* A message (email.message.Message) is a leaf part with a content type, a
\* declared charset ("none" when get_content_charset() is None) and payload
\* bytes, or a multipart container of messages.  Bytes are atoms too: the atom
\* "0xFF" is a byte no UTF-8 text holds, "0xC3A9" is the UTF-8 encoding of one
\* non-ASCII letter, every other atom is ASCII text.

\* longest part list of the top-level multipart message
MaxParts == 3

Part(ctype, charset, payload) ==
    [multipart |-> FALSE, ctype |-> ctype, charset |-> charset,
     payload |-> payload, parts |-> <<>>, subject |-> NoneValue]

Multipart(ctype, parts) ==
    [multipart |-> TRUE, ctype |-> ctype, charset |-> "none",
     payload |-> <<>>, parts |-> parts, subject |-> NoneValue]

PlainA == Part("text/plain", "utf-8", <<"plainA">>)
PlainB == Part("text/plain", "none", <<"plainB">>)
PlainEmpty == Part("text/plain", "utf-8", <<>>)
PlainUnknown == Part("text/plain", "x-unknown", <<"plainU">>)
PlainInvalid == Part("text/plain", "utf-8", <<"plainI", "0xFF">>)
HtmlA == Part("text/html", "utf-8", <<"htmlA">>)
HtmlUnknown == Part("text/html", "x-unknown", <<"htmlU">>)
Image == Part("image/png", "none", <<"0x89", "PNG">>)
AltPlainHtml == Multipart("multipart/alternative", <<PlainA, HtmlA>>)
AltHtmlPlain == Multipart("multipart/alternative", <<HtmlA, PlainB>>)
AltHtml == Multipart("multipart/alternative", <<HtmlA>>)
RelatedDeep ==
    Multipart("multipart/related",
              <<Multipart("multipart/alternative", <<HtmlA, PlainA>>), Image>>)

CalMeeting ==
    Part("text/calendar", "utf-8",
         TextOf(<<BeginEvent, SummaryMeeting, AttendeeAl, EndEvent>>))
CalReminder ==
    Part("text/calendar", "none",
         TextOf(<<BeginEvent, SummaryReminder, EndEvent>>))
CalInvalid ==
    Part("text/calendar", "utf-8", <<"BEGIN", ":", "VEVENT", LF, "0xFF">>)
AltPlainCal == Multipart("multipart/alternative", <<PlainA, CalReminder>>)
MixedCalInvalid == Multipart("multipart/mixed", <<CalInvalid>>)

\* the parts of the messages extract_email_content is run on
ContentChildren ==
    {PlainA, PlainB, PlainEmpty, PlainUnknown, PlainInvalid, HtmlA,
     HtmlUnknown, Image, AltPlainHtml, AltHtmlPlain, AltHtml, RelatedDeep}

\* the messages extract_email_content is run on
ContentMessages ==
    {PlainA, PlainEmpty, PlainUnknown, PlainInvalid, HtmlA, HtmlUnknown, Image}
    \cup {Multipart("multipart/mixed", ps) :
            ps \in SeqUpTo(ContentChildren, MaxParts)}

\* the parts of the messages extract_email_ics is run on
CalendarChildren ==
    {CalMeeting, CalReminder, CalInvalid, PlainA, Image, AltPlainCal,
     MixedCalInvalid, AltPlainHtml}

\* the messages extract_email_ics is run on
CalendarMessages ==
    {CalMeeting, CalInvalid, PlainA}
    \cup {Multipart("multipart/mixed", ps) :
            ps \in SeqUpTo(CalendarChildren, MaxParts)}

RECURSIVE Walk(_)
\* Message.walk(): the message, then the walk of each subpart, in order
Walk(msg) ==
    <<msg>> \o (IF msg.multipart
                THEN Concat([j \in 1..Len(msg.parts) |-> Walk(msg.parts[j])])
                ELSE <<>>)

\* the codecs bytes.decode() knows
KnownCharsets == {"utf-8"}

\* the bytes that are invalid in UTF-8 text
InvalidBytes == {"0xFF"}

\* part.get_content_charset() or "utf-8"
CharsetOf(part) == IF part.charset = "none" THEN "utf-8" ELSE part.charset

\* bytes.decode(charset, ...) raises LookupError
UnknownCharset(charset) == charset \notin KnownCharsets

\* the text of one valid byte atom
DecodeAtom(b) == IF b = "0xC3A9" THEN "e-acute" ELSE b

\* bytes.decode("utf-8", errors="replace")
DecodeReplace(bytes) ==
    [j \in 1..Len(bytes) |->
        IF bytes[j] \in InvalidBytes THEN "U+FFFD" ELSE DecodeAtom(bytes[j])]

\* bytes.decode("utf-8") raises UnicodeDecodeError
StrictDecodeFails(bytes) == \E j \in 1..Len(bytes) : bytes[j] \in InvalidBytes

\* bytes.decode("utf-8") when it does not raise
DecodeStrict(bytes) == [j \in 1..Len(bytes) |-> DecodeAtom(bytes[j])]

\* ---------------------------------------------------- extract_email_content
\* the candidate a text/plain or text/html part leaves: the decoded payload,
\* or the candidate as it was when decoding raises (the except clause)
DecodedOr(part, old) ==
    IF UnknownCharset(CharsetOf(part)) THEN old
    ELSE Some(DecodeReplace(part.payload))

\* one iteration of `for part in mime_msg.walk()`
ScanPart(st, part) ==
    IF part.ctype = "text/plain" /\ Falsy(st.text_content)
    THEN [st EXCEPT !.text_content = DecodedOr(part, @)]
    ELSE IF part.ctype = "text/html" /\ Falsy(st.html_content)
    THEN [st EXCEPT !.html_content = DecodedOr(part, @)]
    ELSE st

\* the else branch: a message that is not multipart; raised when decode raises
SinglePart(msg) ==
    LET raises == /\ msg.ctype \in {"text/plain", "text/html"}
                  /\ UnknownCharset(CharsetOf(msg))
        text == DecodeReplace(msg.payload)
    IN  [raised |-> raises,
         text_content |-> IF msg.ctype = "text/plain" /\ ~raises
                          THEN Some(text) ELSE NoneValue,
         html_content |-> IF msg.ctype = "text/html" /\ ~raises
                          THEN Some(text) ELSE NoneValue]

\* the preference reversed: HTML returned whenever there is any
PreferHtml(text, html) == IF ~html.none THEN html ELSE text

\* return text_content if text_content is not None else html_content
PreferPlain(text, html) == IF ~text.none THEN text ELSE html

\* the value a function returns for a string or None
Returned(x) ==
    IF x.none THEN [kind |-> "none"] ELSE [kind |-> "text", val |-> x.val]

RECURSIVE ScanParts(_, _)
\* the candidates after the loop over the parts ps
ScanParts(st, ps) ==
    IF ps = <<>> THEN st ELSE ScanParts(ScanPart(st, Head(ps)), Tail(ps))

\* extract_email_content(mime_msg) as a function
ExtractEmailContent(msg) ==
    LET none == [text_content |-> NoneValue, html_content |-> NoneValue]
        st == IF msg.multipart THEN ScanParts(none, Walk(msg))
              ELSE SinglePart(msg)
    IN  IF ~msg.multipart /\ st.raised THEN [kind |-> "raised"]
        ELSE Returned(PreferPlain(st.text_content, st.html_content))

\* extract_email_content is entered with a message
EnterContent ==
    /\ mime_msg \in ContentMessages
    /\ walk = <<>>
    /\ part_no = 1
    /\ text_content = NoneValue
    /\ html_content = NoneValue
    /\ mpc = "call"
    /\ mresult = [kind |-> "pending"]

\* if mime_msg.is_multipart(): ... else: ...
ContentCall ==
    /\ mpc = "call"
    /\ IF mime_msg.multipart
       THEN /\ walk' = Walk(mime_msg)
            /\ mpc' = "loop"
            /\ UNCHANGED <<text_content, html_content, mresult>>
       ELSE LET st == SinglePart(mime_msg)
            IN  /\ text_content' = st.text_content
                /\ html_content' = st.html_content
                /\ mpc' = IF st.raised THEN "raised" ELSE "return"
                /\ mresult' = IF st.raised THEN [kind |-> "raised"]
                              ELSE mresult
                /\ UNCHANGED walk
    /\ UNCHANGED <<mime_msg, part_no>>
    /\ UNCHANGED <<icsVars, headerVars, recordVars>>

\* one iteration of `for part in mime_msg.walk()`
ContentPart ==
    /\ mpc = "loop"
    /\ part_no <= Len(walk)
    /\ LET st == ScanPart([text_content |-> text_content,
                           html_content |-> html_content], walk[part_no])
       IN  /\ text_content' = st.text_content
           /\ html_content' = st.html_content
    /\ part_no' = part_no + 1
    /\ UNCHANGED <<mime_msg, walk, mpc, mresult>>
    /\ UNCHANGED <<icsVars, headerVars, recordVars>>

\* the return statement
ContentReturn ==
    /\ \/ mpc = "loop" /\ part_no > Len(walk)
       \/ mpc = "return"
    /\ mresult' = Returned(PreferPlain(text_content, html_content))
    /\ mpc' = "done"
    /\ UNCHANGED <<mime_msg, walk, part_no, text_content, html_content>>
    /\ UNCHANGED <<icsVars, headerVars, recordVars>>

NextContent == ContentCall \/ ContentPart \/ ContentReturn

InitContent == EnterContent /\ IdleIcs /\ IdleHeader /\ IdleRecord

\* extract_email_content on a message
SpecContent == InitContent /\ [][NextContent]_vars

\* -------------------------------------------------------- extract_email_ics
\* every message is scanned, multipart or not
ScansPartsAlways(msg) == TRUE

\* if mime_msg.is_multipart()
ScansParts(msg) == msg.multipart

\* a text/calendar part that does not decode is passed over
CalendarPartSkipInvalid(part) ==
    IF part.ctype # "text/calendar" \/ StrictDecodeFails(part.payload)
    THEN [kind |-> "continue"]
    ELSE [kind |-> "event", data |-> ParseIcs(DecodeStrict(part.payload))]

\* the body of the loop: what a part makes the function return, or "continue"
CalendarPart(part) ==
    IF part.ctype # "text/calendar" THEN [kind |-> "continue"]
    ELSE IF StrictDecodeFails(part.payload)
    THEN [kind |-> "error", Error |-> "Error decoding .ics file content"]
    ELSE [kind |-> "event", data |-> ParseIcs(DecodeStrict(part.payload))]

RECURSIVE ScanCalendar(_)
\* the value the loop over the parts ps ends with
ScanCalendar(ps) ==
    IF ps = <<>> THEN [kind |-> "none"]
    ELSE IF CalendarPart(Head(ps)).kind # "continue"
         THEN CalendarPart(Head(ps))
         ELSE ScanCalendar(Tail(ps))

\* extract_email_ics(mime_msg) as a function
ExtractEmailIcs(msg) ==
    IF ScansParts(msg) THEN ScanCalendar(Walk(msg)) ELSE [kind |-> "none"]

\* extract_email_ics is entered with a message
EnterCalendar ==
    /\ mime_msg \in CalendarMessages
    /\ walk = <<>>
    /\ part_no = 1
    /\ text_content = NoneValue
    /\ html_content = NoneValue
    /\ mpc = "call"
    /\ mresult = [kind |-> "pending"]

\* if mime_msg.is_multipart(): ... ; return None
IcsCall ==
    /\ mpc = "call"
    /\ IF ScansParts(mime_msg)
       THEN /\ walk' = Walk(mime_msg)
            /\ mpc' = "loop"
            /\ UNCHANGED mresult
       ELSE /\ mresult' = [kind |-> "none"]
            /\ mpc' = "done"
            /\ UNCHANGED walk
    /\ UNCHANGED <<mime_msg, part_no, text_content, html_content>>
    /\ UNCHANGED <<icsVars, headerVars, recordVars>>

\* one iteration of `for part in mime_msg.walk()`
IcsPart ==
    /\ mpc = "loop"
    /\ part_no <= Len(walk)
    /\ LET out == CalendarPart(walk[part_no])
       IN  IF out.kind = "continue"
           THEN /\ part_no' = part_no + 1
                /\ UNCHANGED <<mpc, mresult>>
           ELSE /\ mresult' = out
                /\ mpc' = "done"
                /\ UNCHANGED part_no
    /\ UNCHANGED <<mime_msg, walk, text_content, html_content>>
    /\ UNCHANGED <<icsVars, headerVars, recordVars>>

\* return None, after the loop
IcsReturnNone ==
    /\ mpc = "loop"
    /\ part_no > Len(walk)
    /\ mresult' = [kind |-> "none"]
    /\ mpc' = "done"
    /\ UNCHANGED <<mime_msg, walk, part_no, text_content, html_content>>
    /\ UNCHANGED <<icsVars, headerVars, recordVars>>

NextCalendar == IcsCall \/ IcsPart \/ IcsReturnNone

InitCalendar == EnterCalendar /\ IdleIcs /\ IdleHeader /\ IdleRecord

\* extract_email_ics on a message
SpecCalendar == InitCalendar /\ [][NextCalendar]_vars

\* -------------------------------------------------------- decode_mime_words
\* A header value is a sequence of tokens, each a run of literal text
\* (charset "none") or one encoded-word =?charset?encoding?payload?= with its
\* declared charset and the bytes its payload holds.

\* longest header, in tokens
MaxTokens == 2

LitHello == [charset |-> "none", val |-> <<"Hello", SP>>]
LitWorld == [charset |-> "none", val |-> <<"world">>]
EncCafe == [charset |-> "utf-8", val |-> <<"Caf", "0xC3A9">>]
EncUnknown == [charset |-> "x-unknown", val |-> <<"abc">>]
EncInvalid == [charset |-> "utf-8", val |-> <<"0xFF">>]

Tokens == {LitHello, LitWorld, EncCafe, EncUnknown, EncInvalid}

\* the Subject headers: absent (mime_msg["Subject"] is None), or a value
Subjects == {NoneValue} \cup {Some(ts) : ts \in SeqUpTo(Tokens, MaxTokens)}

\* a str, and a bytes object
Str(v) == [bytes |-> FALSE, val |-> v]
Bytes(v) == [bytes |-> TRUE, val |-> v]

RECURSIVE Collapse(_)
\* email.header.decode_header: adjacent words of one charset become one word
Collapse(ps) ==
    IF Len(ps) < 2 THEN ps
    ELSE IF ps[1].charset = ps[2].charset
         THEN Collapse(<<[word |-> Bytes(ps[1].word.val \o ps[2].word.val),
                          charset |-> ps[1].charset]>>
                       \o SubSeq(ps, 3, Len(ps)))
         ELSE <<ps[1]>> \o Collapse(Tail(ps))

\* email.header.decode_header(s) for a header value: the header itself as one
\* str when it holds no encoded-word, else the (bytes, charset) pairs
DecodeHeader(ts) ==
    IF \A j \in 1..Len(ts) : ts[j].charset = "none"
    THEN <<[word |-> Str(Concat([j \in 1..Len(ts) |-> ts[j].val])),
            charset |-> "none"]>>
    ELSE Collapse([j \in 1..Len(ts) |->
                      [word |-> Bytes(ts[j].val), charset |-> ts[j].charset]])

\* str(word): the word itself for a str, the repr b'...' for bytes
StrOf(word) ==
    IF word.bytes THEN <<"b'">> \o word.val \o <<"'">> ELSE word.val

\* word.decode(charset or "utf-8") raises LookupError or UnicodeDecodeError
WordDecodeRaises(pair) ==
    /\ pair.charset # "none"
    /\ UnknownCharset(pair.charset) \/ StrictDecodeFails(pair.word.val)

\* word.decode(charset or "utf-8") if charset else str(word)
DecodeWord(pair) ==
    IF pair.charset # "none" THEN DecodeStrict(pair.word.val)
    ELSE StrOf(pair.word)

RECURSIVE JoinWith(_, _)
\* sep.join(ws)
JoinWith(ws, sep) ==
    IF ws = <<>> THEN <<>>
    ELSE IF Len(ws) = 1 THEN ws[1]
    ELSE ws[1] \o sep \o JoinWith(Tail(ws), sep)

\* decode_mime_words(mime_msg["Subject"]) is entered
EnterHeader ==
    /\ pairs = <<>>
    /\ pair_no = 1
    /\ words = <<>>
    /\ hpc = "call"
    /\ hresult = <<>>

\* header.decode_header(s): TypeError when s is None
HeaderCall ==
    /\ hpc = "call"
    /\ IF mime_msg.subject.none
       THEN hpc' = "raised" /\ UNCHANGED pairs
       ELSE hpc' = "loop" /\ pairs' = DecodeHeader(mime_msg.subject.val)
    /\ UNCHANGED <<pair_no, words, hresult>>
    /\ UNCHANGED <<icsVars, mailVars, recordVars>>

\* one word of the generator
HeaderWord ==
    /\ hpc = "loop"
    /\ pair_no <= Len(pairs)
    /\ IF WordDecodeRaises(pairs[pair_no])
       THEN hpc' = "raised" /\ UNCHANGED <<pair_no, words>>
       ELSE /\ words' = Append(words, DecodeWord(pairs[pair_no]))
            /\ pair_no' = pair_no + 1
            /\ UNCHANGED hpc
    /\ UNCHANGED <<pairs, hresult>>
    /\ UNCHANGED <<icsVars, mailVars, recordVars>>

\* return " ".join(...)
HeaderJoin ==
    /\ hpc = "loop"
    /\ pair_no > Len(pairs)
    /\ hresult' = JoinWith(words, <<SP>>)
    /\ hpc' = "done"
    /\ UNCHANGED <<pairs, pair_no, words>>
    /\ UNCHANGED <<icsVars, mailVars, recordVars>>

\* ------------------------------------------------------------ get_new_email
\* the bodies of the messages a record is built from
RecordBodies ==
    {PlainA, HtmlUnknown,
     Multipart("multipart/mixed", <<AltHtmlPlain, CalMeeting>>),
     Multipart("multipart/mixed", <<HtmlA, CalInvalid>>)}

\* the messages a record is built from
RecordMessages ==
    {[b EXCEPT !.subject = s] : b \in RecordBodies, s \in Subjects}

\* a raw message has been parsed and its record is to be built
EnterRecord ==
    /\ mime_msg \in RecordMessages
    /\ walk = <<>>
    /\ part_no = 1
    /\ text_content = NoneValue
    /\ html_content = NoneValue
    /\ mpc = "idle"
    /\ mresult = [kind |-> "pending"]
    /\ email_data = <<>>
    /\ rpc = "title"

\* "title": decode_mime_words(mime_msg["Subject"]); its exception propagates
RecordTitle ==
    /\ rpc = "title"
    /\ hpc \in {"done", "raised"}
    /\ IF hpc = "raised"
       THEN rpc' = "raised" /\ UNCHANGED email_data
       ELSE rpc' = "content" /\ email_data' = [title |-> hresult]
    /\ UNCHANGED <<icsVars, mailVars, headerVars>>

\* "content": extract_email_content(mime_msg); its exception propagates
RecordContent ==
    /\ rpc = "content"
    /\ LET c == ExtractEmailContent(mime_msg)
       IN  IF c.kind = "raised"
           THEN rpc' = "raised" /\ UNCHANGED email_data
           ELSE /\ rpc' = "attachment"
                /\ email_data' = [title |-> email_data.title, content |-> c]
    /\ UNCHANGED <<icsVars, mailVars, headerVars>>

\* "attachment_ics": extract_email_ics(mime_msg); emails_info.append(email_data)
RecordAttachment ==
    /\ rpc = "attachment"
    /\ email_data' = [title |-> email_data.title,
                      content |-> email_data.content,
                      attachment_ics |-> ExtractEmailIcs(mime_msg)]
    /\ rpc' = "done"
    /\ UNCHANGED <<icsVars, mailVars, headerVars>>

InitRecord == EnterRecord /\ EnterHeader /\ IdleIcs

NextRecord ==
    \/ HeaderCall
    \/ HeaderWord
    \/ HeaderJoin
    \/ RecordTitle
    \/ RecordContent
    \/ RecordAttachment

\* the record of one message, as get_new_email builds it
SpecRecord == InitRecord /\ [][NextRecord]_vars

\* ---------------------------------------------------------------- claims
\* what the claims say of a document, stated on the lines themselves

\* the greatest element of a non-empty set of integers
Max(S) == CHOOSE x \in S : \A y \in S : y <= x

\* a BEGIN: or END: line
IsBlockLine(line) ==
    StartsWith(line, <<"BEGIN", ":">>) \/ StartsWith(line, <<"END", ":">>)

IsSummaryLine(line) == StartsWith(line, <<"SUMMARY", ":">>)

\* the value of a NAME:value line whose name is one atom
ValueOf(line) == SubSeq(line, 3, Len(line))

\* after line k: inside a VALARM opened at or before k and not closed since
AlarmAfter(k) ==
    \E j \in 1..k :
        /\ StartsWith(lines[j], BeginAlarm)
        /\ \A m \in (j + 1)..k : ~StartsWith(lines[m], EndAlarm)

\* after line k: inside a VEVENT opened at or before k and not closed since
EventAfter(k) ==
    \E j \in 1..k :
        /\ StartsWith(lines[j], BeginEvent)
        /\ \A m \in (j + 1)..k : ~StartsWith(lines[m], EndEvent)

\* after line k: inside a VTIMEZONE opened at or before k and not closed since
TimezoneAfter(k) ==
    \E j \in 1..k :
        /\ StartsWith(lines[j], BeginTimezone)
        /\ \A m \in (j + 1)..k : ~StartsWith(lines[m], EndTimezone)

\* the {name, email} entry each ATTENDEE-bearing line of the catalogues stands for
ExpectedEntry(line) ==
    CASE line = AttendeeAl -> [name |-> <<"Al">>, email |-> <<"al@x">>]
      [] line = AttendeeEve -> [name |-> <<"Eve">>, email |-> <<"eve@x">>]
      [] OTHER -> [name |-> <<>>, email |-> <<>>]

RECURSIVE ExpectedAttendees(_)
\* one entry, in document order, for each of the first k lines that contains
\* ATTENDEE and is processed outside an alarm
ExpectedAttendees(k) ==
    IF k = 0 THEN <<>>
    ELSE IF Contains(lines[k], "ATTENDEE") /\ ~AlarmAfter(k)
         THEN Append(ExpectedAttendees(k - 1), ExpectedEntry(lines[k]))
         ELSE ExpectedAttendees(k - 1)

\* the five event fields of C1
ScalarFields(pd) ==
    <<pd.summary, pd.datetime_start, pd.datetime_end, pd.organizer_name,
      pd.organizer_email>>

\* a VEVENT with SUMMARY:Meeting followed by a nested VALARM that holds
\* SUMMARY:Reminder, and no SUMMARY line after the alarm
IsAlarmExample(ls) ==
    \E j \in 2..(Len(ls) - 3) :
        /\ ls[1] = BeginEvent
        /\ \A k \in 2..(j - 1) : ~IsBlockLine(ls[k])
        /\ ls[j] = SummaryMeeting
        /\ ls[j + 1] = BeginAlarm
        /\ ls[j + 2] = SummaryReminder
        /\ ls[j + 3] = EndAlarm
        /\ \A k \in (j + 4)..Len(ls) : ~IsSummaryLine(ls[k])

\* C1: the five event fields are written only by a line processed with in_event
\* true and in_alarm false (the flags as the line's own if/elif chain leaves
\* them), and a VEVENT with SUMMARY:Meeting followed by a nested VALARM holding
\* SUMMARY:Reminder returns summary "Meeting".
C1_AlarmIsolation ==
    /\ [][ScalarFields(parsed_data') # ScalarFields(parsed_data)
            => in_event' /\ ~in_alarm']_vars
    /\ [](pc = "done" /\ IsAlarmExample(lines)
            => result.data.summary = <<"Meeting">>)

\* the alarm example has been parsed to its end, its alarm's SUMMARY processed
C1_Witness ==
    /\ pc = "done"
    /\ IsAlarmExample(lines)
    /\ result.data.summary = <<"Meeting">>

\* ls is BEGIN:VEVENT b1 END:VEVENT BEGIN:VEVENT b2 END:VEVENT, END:VEVENT of
\* the first block being line k, with no BEGIN/END line in b1 or b2 and exactly
\* one SUMMARY line in each, the two values different
IsTwoEventDoc(ls, k) ==
    LET n == Len(ls)
        b1 == 2..(k - 1)
        b2 == (k + 2)..(n - 1)
    IN  /\ k \in 2..(n - 2)
        /\ ls[1] = BeginEvent
        /\ ls[k] = EndEvent
        /\ ls[k + 1] = BeginEvent
        /\ ls[n] = EndEvent
        /\ \A j \in b1 \cup b2 : ~IsBlockLine(ls[j])
        /\ Cardinality({j \in b1 : IsSummaryLine(ls[j])}) = 1
        /\ Cardinality({j \in b2 : IsSummaryLine(ls[j])}) = 1
        /\ \A j1 \in b1, j2 \in b2 :
              IsSummaryLine(ls[j1]) /\ IsSummaryLine(ls[j2])
                  => ValueOf(ls[j1]) # ValueOf(ls[j2])

\* the value of the SUMMARY line of the second block of a two-event document
SecondSummary(ls, k) ==
    ValueOf(ls[CHOOSE j \in (k + 2)..(Len(ls) - 1) : IsSummaryLine(ls[j])])

\* C2: for two sequential VEVENT blocks (no alarms), each with a SUMMARY line of
\* a different value, the returned summary is the second block's value and
\* attendees holds the entries of the ATTENDEE lines of both blocks, in order.
C2_MultiEventOverwrite ==
    \A k \in 1..Len(lines) :
        pc = "done" /\ IsTwoEventDoc(lines, k)
            => /\ result.data.summary = SecondSummary(lines, k)
               /\ result.data.attendees = ExpectedAttendees(Len(lines))

\* a two-event document with an ATTENDEE line in each block has been parsed
C2_Witness ==
    \E k \in 1..Len(lines) :
        /\ pc = "done"
        /\ IsTwoEventDoc(lines, k)
        /\ \E j \in 2..(k - 1) : Contains(lines[j], "ATTENDEE")
        /\ \E j \in (k + 2)..(Len(lines) - 1) : Contains(lines[j], "ATTENDEE")
        /\ Len(result.data.attendees) >= 2
        /\ result.data.attendees[1] # result.data.attendees[2]

EndEventLines == {k \in 1..(i - 1) : StartsWith(lines[k], EndEvent)}

\* the TZID: lines before line k that are processed inside a VTIMEZONE
TzidLinesBefore(k) ==
    {j \in 1..(k - 1) :
        StartsWith(lines[j], <<"TZID", ":">>) /\ TimezoneAfter(j)}

\* the tzid field as C4 states it
ExpectedTzid ==
    IF EndEventLines = {} THEN <<>>
    ELSE LET k == Max(EndEventLines)
         IN  IF TzidLinesBefore(k) = {} THEN <<>>
             ELSE ValueOf(lines[Max(TzidLinesBefore(k))])

\* C4: the tzid field is a function of the lines up to the last END:VEVENT
\* processed: empty before any END:VEVENT, otherwise the value of the most
\* recent TZID: line seen in timezone state before that END:VEVENT, or empty
\* when there is none; so only an END:VEVENT line changes it, and a TZID: line
\* after the last END:VEVENT leaves it as it was.
C4_TzidCommit == parsed_data.tzid = ExpectedTzid

\* a TZID value has been committed, and a later TZID: line with another value
\* has been captured without changing the field
C4_Witness ==
    /\ parsed_data.tzid # <<>>
    /\ tzid_in_locals
    /\ tzid # parsed_data.tzid

\* the decoded contents of the text/plain parts of msg whose decoding does not
\* raise
PlainContents(msg) ==
    LET ps == Walk(msg)
    IN  {DecodeReplace(ps[j].payload) :
            j \in {n \in 1..Len(ps) : /\ ps[n].ctype = "text/plain"
                                      /\ ~UnknownCharset(CharsetOf(ps[n]))}}

\* the payloads, decoded, of the text/html parts of msg
HtmlContents(msg) ==
    LET ps == Walk(msg)
    IN  {DecodeReplace(ps[j].payload) :
            j \in {n \in 1..Len(ps) : ps[n].ctype = "text/html"}}

\* C5: for a multipart message with at least one decodable text/plain part and
\* at least one text/html part, in any order and at any depth, the result is
\* the content of a text/plain part and never the HTML content.
C5_PlainTextWins ==
    (/\ mpc = "done"
     /\ mime_msg.multipart
     /\ PlainContents(mime_msg) # {}
     /\ HtmlContents(mime_msg) # {})
        => /\ mresult.kind = "text"
           /\ mresult.val \in PlainContents(mime_msg)
           /\ mresult.val \notin HtmlContents(mime_msg)

\* the HTML part comes first, two levels below the top, and the plain text of
\* the part after it is returned
C5_Witness ==
    /\ mpc = "done"
    /\ mime_msg.multipart
    /\ Len(mime_msg.parts) >= 1
    /\ mime_msg.parts[1] = RelatedDeep
    /\ mresult = [kind |-> "text", val |-> <<"plainA">>]

\* the places of the text/calendar parts in the walk of msg
CalendarPlaces(msg) ==
    {j \in 1..Len(Walk(msg)) : Walk(msg)[j].ctype = "text/calendar"}

\* the first text/calendar part of msg in document order
FirstCalendar(msg) ==
    Walk(msg)[CHOOSE j \in CalendarPlaces(msg) :
                 \A n \in CalendarPlaces(msg) : j <= n]

\* C6: for a multipart message with a text/calendar part, the result is decided
\* by the first such part in document order alone: the Error value when its
\* bytes are not valid UTF-8 (even if a later calendar part is valid), its
\* parse otherwise.
C6_FirstCalendarPart ==
    (mpc = "done" /\ mime_msg.multipart /\ CalendarPlaces(mime_msg) # {})
        => LET part == FirstCalendar(mime_msg)
           IN  IF StrictDecodeFails(part.payload)
               THEN mresult = [kind |-> "error",
                               Error |-> "Error decoding .ics file content"]
               ELSE /\ mresult.kind = "event"
                    /\ mresult.data = ParseIcs(DecodeStrict(part.payload))
                    /\ mresult.data.ics_file = part.payload
                    /\ part = CalMeeting
                          => mresult.data.summary = <<"Meeting">>
                    /\ part = CalReminder
                          => mresult.data.summary = <<"Reminder">>

\* the first calendar part does not decode, a later one does, and the result
\* is the Error value
C6_Witness ==
    /\ mpc = "done"
    /\ mime_msg.multipart
    /\ CalendarPlaces(mime_msg) # {}
    /\ StrictDecodeFails(FirstCalendar(mime_msg).payload)
    /\ \E j \in CalendarPlaces(mime_msg) :
          ~StrictDecodeFails(Walk(mime_msg)[j].payload)
    /\ mresult.kind = "error"

\* C7: the result is None exactly when the message is not multipart (even when
\* its own content type is text/calendar) or is multipart without a
\* text/calendar part.
C7_AbsentCalendar ==
    mpc = "done"
        => ((mresult.kind = "none")
              <=> (~mime_msg.multipart \/ CalendarPlaces(mime_msg) = {}))

\* a message that is not multipart and is itself text/calendar returned None
C7_Witness ==
    /\ mpc = "done"
    /\ ~mime_msg.multipart
    /\ mime_msg.ctype = "text/calendar"
    /\ mresult.kind = "none"

\* C8: decode_mime_words never raises: for every header string the call
\* returns a string, also when an encoded-word declares an unrecognized charset
\* or holds bytes invalid for its charset.
C8_NeverRaises == ~mime_msg.subject.none => hpc # "raised"

\* C9: a message without a Subject header gets a record whose title is the
\* empty string, and building it does not raise.
C9_AbsentSubjectEmptyTitle ==
    (mime_msg.subject.none /\ rpc # "title")
        => /\ rpc # "raised"
           /\ email_data.title = <<>>

\* C10: every word without a declared charset contributes exactly its original
\* text, and a header without encoded-words is returned unchanged.
C10_LiteralUnchanged ==
    hpc = "done"
        => /\ \A j \in 1..Len(pairs) :
                 pairs[j].charset = "none" => words[j] = pairs[j].word.val
           /\ (\A j \in 1..Len(mime_msg.subject.val) :
                  mime_msg.subject.val[j].charset = "none")
                 => hresult = Concat([j \in 1..Len(mime_msg.subject.val) |->
                                         mime_msg.subject.val[j].val])

\* the text holds a fold: a line feed immediately followed by a space
HasFold(text) ==
    \E k \in 1..(Len(text) - 1) : text[k] = LF /\ text[k + 1] = SP

\* C11: for every input text, the ics_file field equals the text exactly (not
\* unfolded, trimmed or re-encoded) before the loop, after every line processed
\* and in the result returned.
C11_RawSourceIdentity ==
    /\ parsed_data.ics_file = content
    /\ pc = "done" => result.data.ics_file = content

\* a text with CRLF line breaks and a fold, which unfolding shortens, has been
\* parsed to its end
C11_Witness ==
    /\ pc = "done"
    /\ HasFold(content)
    /\ Contains(content, CR)
    /\ Len(lines) >= 3
    /\ Len(Concat(lines)) < Len(content) - 2 * Len(lines)
    /\ result.data.ics_file = content

\* the number of lines of a document that are the line given
CountOf(doc, line) == Cardinality({k \in 1..Len(doc) : doc[k] = line})

\* C12: every line break (CRLF or LF) immediately followed by one space is
\* removed before any matching: a text of the folded family is parsed as the
\* logical lines it folds, so a DTSTART: value split across two physical lines
\* inside a VEVENT is captured as one unbroken value, and a folded continuation
\* is never matched as a line of its own (each ATTENDEE line gives one complete
\* entry, whatever its folds).
C12_LineUnfolding ==
    (HasFold(content) \/ Contains(content, CR))
        => \A r \in FoldedRenderings :
              content = r.text
                  => /\ lines = r.logical
                     /\ pc = "done"
                           => /\ CountOf(r.logical, DtStartSplit) > 0
                                    => result.data.datetime_start
                                           = <<"2024", "0101T100000">>
                              /\ Len(result.data.attendees)
                                    = CountOf(r.logical, AttendeeAl)
                              /\ \A j \in 1..Len(result.data.attendees) :
                                    result.data.attendees[j]
                                        = [name |-> <<"Al">>,
                                           email |-> <<"al@x">>]

\* a DTSTART value folded in its middle, by CRLF and a space or by LF and a
\* space, has been captured unbroken
C12_Witness ==
    /\ pc = "done"
    /\ \E k \in 1..(Len(content) - 3) :
          /\ content[k] = "2024"
          /\ \/ SubSeq(content, k + 1, k + 3) = <<CR, LF, SP>>
             \/ SubSeq(content, k + 1, k + 2) = <<LF, SP>>
    /\ result.data.datetime_start = <<"2024", "0101T100000">>

\* Outside, InTimezone, InEvent, InEventInAlarm as values of
\* <<in_timezone, in_event, in_alarm>>
FourBlockStates ==
    {<<FALSE, FALSE, FALSE>>, <<TRUE, FALSE, FALSE>>, <<FALSE, TRUE, FALSE>>,
     <<FALSE, TRUE, TRUE>>}

\* C13 as stated: after any sequence of logical lines the flags are in one of
\* the four states Outside, InTimezone, InEvent, InEventInAlarm.
C13_FourBlockStates == <<in_timezone, in_event, in_alarm>> \in FourBlockStates

\* the blocks of the first n lines are well nested: a VALARM begins only inside
\* an open VEVENT, a VEVENT ends only with no VALARM open, a VEVENT begins only
\* outside a VTIMEZONE and a VTIMEZONE only outside a VEVENT
WellNested(n) ==
    \A k \in 1..n :
        /\ StartsWith(lines[k], BeginAlarm) => EventAfter(k - 1)
        /\ StartsWith(lines[k], EndEvent) => ~AlarmAfter(k - 1)
        /\ StartsWith(lines[k], BeginEvent) => ~TimezoneAfter(k - 1)
        /\ StartsWith(lines[k], BeginTimezone) => ~EventAfter(k - 1)

\* C13 as amended: as long as the blocks of the lines processed are well
\* nested, the flags are in one of the four states; in particular in_alarm is
\* not true while in_event is false, and in_timezone and in_event are not both
\* true.
C13_WellNestedBlockStates ==
    WellNested(i - 1)
        => /\ <<in_timezone, in_event, in_alarm>> \in FourBlockStates
           /\ in_alarm => in_event
           /\ ~(in_timezone /\ in_event)

\* a well-nested document has gone through InEvent and InEventInAlarm and is
\* back in InEvent after END:VALARM
C13_Witness ==
    /\ i > 3
    /\ WellNested(i - 1)
    /\ StartsWith(lines[i - 1], EndAlarm)
    /\ \E k \in 1..(i - 2) : StartsWith(lines[k], BeginAlarm)
    /\ <<in_timezone, in_event, in_alarm>> = <<FALSE, TRUE, FALSE>>

\* C14: in a multipart message, once a text/plain part has been decoded no
\* later part changes the plain-text candidate, and likewise for text/html,
\* also when the content decoded is the empty string.
C14_FirstPartTracking ==
    [][/\ ~text_content.none => text_content' = text_content
       /\ ~html_content.none => html_content' = html_content]_vars

\* the step processes, in event state and not in alarm state, a line that
\* contains ORGANIZER
OrganizerStep ==
    /\ pc = "loop"
    /\ i <= Len(lines)
    /\ i' = i + 1
    /\ Contains(lines[i], "ORGANIZER")
    /\ in_event'
    /\ ~in_alarm'

\* C15 as stated: when a line containing ORGANIZER is processed in event state
\* and not in alarm state, a pattern that does not match leaves its field
\* (organizer_email, organizer_name) at the value it had before the line.
C15_FailedMatchKeepsPrior ==
    [][OrganizerStep
          => /\ MailtoMatches(lines[i]) = {}
                   => parsed_data'.organizer_email = parsed_data.organizer_email
             /\ CnMatches(lines[i]) = {}
                   => parsed_data'.organizer_name = parsed_data.organizer_name
      ]_vars

\* the line begins with SUMMARY:, DTSTART: or DTEND:, which the chain tests
\* before it looks for ORGANIZER
IsEarlierBranch(line) ==
    \/ StartsWith(line, <<"SUMMARY", ":">>)
    \/ StartsWith(line, <<"DTSTART", ":">>)
    \/ StartsWith(line, <<"DTEND", ":">>)

\* C15 as amended: when a line that contains ORGANIZER and does not begin with
\* SUMMARY:, DTSTART: or DTEND: is processed in event state and not in alarm
\* state, a pattern that does not match sets its field to the empty string,
\* whatever the field held before, and a pattern that matches sets it to the
\* text matched.
C15_FailedMatchClears ==
    [][(OrganizerStep /\ ~IsEarlierBranch(lines[i]))
          => /\ parsed_data'.organizer_email =
                   (CASE lines[i] = OrganizerBob -> <<"bob@x">>
                      [] lines[i] = OrganizerMailOnly -> <<"bob@x">>
                      [] OTHER -> <<>>)
             /\ parsed_data'.organizer_name =
                   (CASE lines[i] = OrganizerBob -> <<"Bob">>
                      [] OTHER -> <<>>)
             /\ MailtoMatches(lines[i]) = {}
                   => parsed_data'.organizer_email = <<>>
             /\ CnMatches(lines[i]) = {}
                   => parsed_data'.organizer_name = <<>>
      ]_vars

\* an ORGANIZER line with a name and an address has been captured in the
\* event, and a later ORGANIZER line without either has emptied both fields
C15_Witness ==
    /\ i > 2
    /\ lines[i - 1] = OrganizerBare
    /\ in_event
    /\ ~in_alarm
    /\ \E k \in 1..(i - 2) :
          lines[k] = OrganizerBob /\ EventAfter(k) /\ ~AlarmAfter(k)
    /\ parsed_data.organizer_email = <<>>
    /\ parsed_data.organizer_name = <<>>

\* C16: a text part with an unknown charset or with bytes invalid for its
\* charset never makes extract_email_content raise, for single-part and
\* multipart messages alike.
C16_DecodeNeverFatal == mpc # "raised" /\ mresult.kind # "raised"

\* C17: a line DTSTART;TZID=X:20240101T100000 processed in event state and not
\* in alarm state sets datetime_start to the text after the first colon of the
\* line, 20240101T100000.
C17_ParameterisedDate ==
    (/\ i > 1
     /\ lines[i - 1] = DtStartParam
     /\ in_event
     /\ ~in_alarm)
        => parsed_data.datetime_start = <<"20240101T100000">>

====
